---- MODULE Spec2Model ----
(***************************************************************************)
(* Tanium Threat Response V2 integration (TaniumThreatResponseV2.py).       *)
(*                                                                         *)
(* Spec: one run of main.  The command is read, one Client is constructed  *)
(* (__init__, check_authentication) and the command function makes its     *)
(* do_request calls on it.  A do_request call is followed through its      *)
(* network steps: the lazy session fetch (line 57-58), the first dispatch  *)
(* (59-61), the classification of the response (63-99), the refresh after  *)
(* a 403 (77) and the re-issued request (78-80).  The except clauses of    *)
(* the command functions and main's try/except (1873-1895) end the run.    *)
(*                                                                         *)
(* FetchSpec: successive runs of fetch_incidents over the stored cursor    *)
(* (last run time and id).                                                 *)
(*                                                                         *)
(* ConcSpec: the head of do_request run by two callers at once on one      *)
(* Client.                                                                 *)
(*                                                                         *)
(* Everything the remote service answers is an input chosen with \E.       *)
(***************************************************************************)
EXTENDS Naturals, Sequences, FiniteSets

\* ------------------------------------------------------------------ bounds

\* Number of do_request calls made on the one client.
MaxCalls == 2

\* Number of fetch_incidents runs, and of alerts in one response.
MaxRuns == 2
MaxAlerts == 2

\* ------------------------------------------------------------- value sets

\* None and '' are both falsy in the code; "" stands for either.
Usernames == {"", "user"}
Passwords == {"", "pw"}
ApiTokens == {"", "tok"}

\* Session values a login response may carry in data.session ("" = missing).
LoginSessions == {"", "s1", "s2"}

\* resp_type values callers pass to do_request ('response' = anything else).
RespTypes == {"json", "text", "content", "response"}

\* headers['session'] as supplied by the caller: absent or some value.
CallerHeaders == {"absent", "caller"}

\* ok_codes of the first dispatch (line 61) and of the retry (line 79),
\* and of the two session endpoints (lines 104, 113).
OkCodesFirst == {200, 201, 202, 204, 400, 401, 403, 404}
OkCodesRetry == {200, 400, 404}
OkCodesLogin == {200}

\* The status recorded for a transport call that got no response at all
\* (connection error, timeout).
NoResponse == 0

\* Statuses the service may answer a business request with.
Statuses == OkCodesFirst \cup {500, NoResponse}

\* The statuses of lines 82 and of the success family.
RequestErrorStatuses == {400, 404}
SuccessStatuses == {200, 201, 202, 204}

\* A response to a business request: its status, its body (res.content,
\* "" = empty), whether the body is decodable as JSON (an empty body is
\* not), its reason phrase (res.reason, "" = empty) and its
\* Content-Disposition header ("absent" = no such header).  The reason
\* phrase is varied where the code reads it (400/404), the header where the
\* code reads it (the statuses that reach lines 89-99), the body wherever
\* the code reads it.
Responses ==
    { r \in [status : Statuses, content : {"", "body"}, json : BOOLEAN,
             reason : {"", "reason"},
             disposition : {"absent", "attachment"}] :
        /\ r.json => r.content # ""
        /\ r.status \in {403, 500, NoResponse} => r.content = ""
        /\ r.status = 401 => r.content # ""
        /\ r.status \notin RequestErrorStatuses => r.reason = "reason"
        /\ r.status \notin SuccessStatuses => r.disposition = "absent" }

\* A response of a session endpoint: its status and its data payload, given
\* by the session value in it ("" = data falsy, no session in it).
LoginResponses ==
    { lr \in [status : {200, 500, NoResponse}, data : LoginSessions] :
        lr.status # 200 => lr.data = "" }

VARIABLES
    pc,          \* "new" | "idle" | "ensure" | "send" | "classify" |
                 \* "refresh" | "retry" | "done" | "exited"
    username,    \* self.username
    password,    \* self.password
    api_token,   \* self.api_token
    session,     \* self.session
    resp_type,   \* resp_type argument of the running call
    headers,     \* headers['session'] of the running call's headers dict
    res,         \* responses to the dispatches of the caller's request
    sent,        \* session header carried by each of those dispatches
    log,         \* network calls of the running call: "login" | "request"
    refreshes,   \* update_session calls triggered by a 403 in this call
    outcome,     \* "none" | "result" | "auth_error" | "request_error" |
                 \* "transport_error" | "config_error"
    result,      \* shape of the value returned: "none" | "json" | "bytes" |
                 \* "text_pair" | "content_pair" | "response"
    message,     \* message of the error raised at lines 84-87, as the
                 \* pieces it is made of (<<>> = none)
    disposition, \* second element of a returned pair ("n/a" = no pair)
    logins,      \* answers of the session endpoint in the running call
    calls,       \* do_request calls started so far
    sessionAtStart, \* self.session when the running call started
    loginTotal,  \* session-endpoint calls since construction
    netTotal,    \* all network calls since construction
    seen403,     \* some business response so far was a 403
    command,     \* demisto.command() of this run of main
    raised,      \* exception leaving the command function: "none" |
                 \* "clarified" | "unbound" | "handler"
    swallowed,   \* an except clause of the command function ended without
                 \* raising
    hostOutcome, \* how main ended: "running" | "returned" | "reraised" |
                 \* "return_error"
    logged,      \* main wrote the traceback to the log (lines 1887-1888)
    error_msg,   \* text handed to return_error at line 1895: "none" |
                 \* "plain" | "with_hint"
    lastRunTime, \* demisto.getLastRun()['time'] (<<>> = no such key)
    lastRunId,   \* demisto.getLastRun()['id'] (<<>> = no such key)
    runs,        \* fetch_incidents runs so far
    incidents,   \* alerts handed to demisto.incidents by the last run
    emitted,     \* ids of the alerts handed over by earlier runs
    raw_response, \* the alerts the service returned to the last run
    current_fetch, \* the time cursor the last run started from
    start_id,    \* the id cursor the last run started from
    max_fetch,   \* max_fetch parameter of the last run
    tpc,         \* position of each concurrent do_request call
    tanswer,     \* answer each concurrent call got from the login endpoint
    observed     \* self.session as each concurrent call read it at line 57

requestVars == <<pc, username, password, api_token, session, resp_type,
                 headers, res, sent, log, refreshes, outcome, result,
                 message, disposition, logins, calls, sessionAtStart,
                 loginTotal, netTotal, seen403>>

hostVars == <<command, raised, swallowed, hostOutcome, logged, error_msg>>
fetchVars == <<lastRunTime, lastRunId, runs, incidents, emitted,
               raw_response,
               current_fetch, start_id, max_fetch>>
concVars == <<tpc, tanswer, observed>>

\* What the methods of Client leave alone.
outerVars == <<hostVars, fetchVars, concVars>>

vars == <<requestVars, hostVars, fetchVars, concVars>>

clientVars == <<username, password, api_token>>
callVars == <<resp_type, headers, res, sent, refreshes, result, calls,
              sessionAtStart, seen403>>
valueVars == <<message, disposition>>

\* ---------------------------------------------------------- the transport

\* BaseClient._http_request(..., resp_type, ok_codes) on response r: raises
\* when the status is not in ok_codes; otherwise returns the response object
\* for resp_type='response', and for the default resp_type ('json') the
\* decoded body, raising when the body is not decodable.
http_request(r, ok_codes, rt) ==
    IF r.status \notin ok_codes THEN "raise"
    ELSE IF rt = "response" THEN "response"
    ELSE IF r.json THEN "json"
    ELSE "raise"

\* ------------------------------------------------------------ construction

\* The commands main is run with in this model: the fetch, a command whose
\* function catches HTTPError only (get_intel_doc), one that catches
\* HTTPError and DemistoException (add_intel_docs_label) and one of
\* COMMANDS_DEPEND_ON_CONNECTIVITY that calls do_request twice
\* (create_evidence).
Commands ==
    {"fetch-incidents", "tanium-tr-get-intel-doc-by-id",
     "tanium-tr-intel-docs-add-label", "tanium-tr-create-evidence"}

COMMANDS_DEPEND_ON_CONNECTIVITY == {"tanium-tr-create-evidence"}

\* No Client constructed yet, no call made.
NoClient ==
    /\ pc = "new"
    /\ username = "" /\ password = "" /\ api_token = ""
    /\ session = ""
    /\ resp_type = "json"
    /\ headers = "absent"
    /\ res = <<>> /\ sent = <<>> /\ log = <<>>
    /\ refreshes = 0
    /\ outcome = "none" /\ result = "none"
    /\ message = <<>> /\ disposition = "n/a"
    /\ logins = <<>>
    /\ calls = 0
    /\ sessionAtStart = ""
    /\ loginTotal = 0 /\ netTotal = 0
    /\ seen403 = FALSE

\* main has read its command c and has not ended.
MainRunning(c) ==
    /\ command = c
    /\ raised = "none" /\ swallowed = FALSE
    /\ hostOutcome = "running"
    /\ logged = FALSE
    /\ error_msg = "none"

\* The stored last run is empty and no fetch has run.
NoLastRun ==
    /\ lastRunTime = <<>> /\ lastRunId = <<>>
    /\ runs = 0
    /\ incidents = <<>>
    /\ emitted = {}
    /\ raw_response = <<>>
    /\ current_fetch = 0 /\ start_id = 0
    /\ max_fetch = 0

\* No concurrent do_request calls.
NoThreads ==
    /\ tpc = <<>> /\ tanswer = <<>> /\ observed = <<>>

\* main up to line 1867: the command is read, the client not yet built.
Init ==
    /\ NoClient
    /\ \E c \in Commands : MainRunning(c)
    /\ NoLastRun
    /\ NoThreads

\* check_authentication's condition (line 129); first the variant that tests
\* `not self.api_token`.
BothCredentialsMutant(u, p, t) == u # "" /\ p # "" /\ t = ""
BothCredentials(u, p, t) == u # "" /\ p # "" /\ t # ""

\* Client.__init__ (lines 45-51): store the fields, run
\* check_authentication, whose return_error ends the process.
Client_init ==
    /\ pc = "new"
    /\ UNCHANGED outerVars
    /\ \E u \in Usernames, p \in Passwords, t \in ApiTokens :
         /\ username' = u /\ password' = p /\ api_token' = t
         /\ session' = ""
         /\ IF BothCredentials(u, p, t)
              THEN pc' = "exited" /\ outcome' = "config_error"
              ELSE pc' = "idle" /\ outcome' = "none"
    /\ UNCHANGED <<callVars, valueVars, logins, log, loginTotal, netTotal>>

\* ---------------------------------------------------------- update_session

\* One more network call of kind k in the running call.
Network(k) ==
    /\ log' = Append(log, k)
    /\ netTotal' = netTotal + 1
    /\ loginTotal' = IF k = "login" THEN loginTotal + 1 ELSE loginTotal

\* The condition of the elif at line 107; first the variant with `or` for
\* `and`.
HasBasicCredentialsMutant(u, p) == u # "" \/ p # ""
HasBasicCredentials(u, p) == u # "" /\ p # ""

\* The answer lr of a session endpoint as _http_request sees it: a JSON
\* body whenever there is one; first the variant that takes every answer
\* for a 200.
LoginAnswerAnyStatus(lr) == [status |-> 200, json |-> TRUE]
LoginAnswer(lr) == [status |-> lr.status, json |-> TRUE]

\* Lines 105-106: the token is adopted when the validation answer carries a
\* truthy data; first the variant that adopts the answer's data.
ValidatedSessionMutant(lr) == lr.data
ValidatedSession(lr) == IF lr.data # "" THEN api_token ELSE session

\* Client.update_session (lines 101-118) with lr the session endpoint's
\* answer; control continues at `next` when it returns.  An exception of
\* _http_request propagates out of do_request; return_error (line 117) ends
\* the process.
update_session(lr, next) ==
    IF api_token # ""
      THEN /\ Network("login")
           /\ logins' = Append(logins, lr)
           /\ IF http_request(LoginAnswer(lr),
                              OkCodesLogin, "json") = "raise"
                THEN /\ outcome' = "transport_error"
                     /\ pc' = "done"
                     /\ UNCHANGED session
                ELSE /\ session' = ValidatedSession(lr)
                     /\ pc' = next
                     /\ UNCHANGED outcome
      ELSE IF HasBasicCredentials(username, password)
        THEN /\ Network("login")
             /\ logins' = Append(logins, lr)
             /\ IF http_request(LoginAnswer(lr),
                                OkCodesLogin, "json") = "raise"
                  THEN /\ outcome' = "transport_error"
                       /\ pc' = "done"
                       /\ UNCHANGED session
                  ELSE /\ session' = lr.data
                       /\ pc' = next
                       /\ UNCHANGED outcome
        ELSE /\ outcome' = "config_error"
             /\ pc' = "exited"
             /\ UNCHANGED <<session, log, logins, netTotal, loginTotal>>

\* ---------------------------------------------------------------- do_request

\* The do_request calls one run of a command function makes at most: the
\* fetch one for the alerts and one per alert with an intelDocId (lines 464,
\* 406), create_evidence two (lines 1746, 1764), the others one.
CallsOf(c) ==
    IF c = "fetch-incidents" THEN MaxCalls
    ELSE IF c = "tanium-tr-create-evidence" THEN 2
    ELSE 1

\* Entry of do_request (lines 53-56).  The command function calls it while
\* main runs, the first time or after a call that returned; no command
\* function calls it again after a call that raised.
do_request_begin ==
    /\ pc \in {"idle", "done"}
    /\ UNCHANGED outerVars
    /\ hostOutcome = "running" /\ raised = "none" /\ ~swallowed
    /\ pc = "done" => outcome = "result"
    /\ calls < MaxCalls /\ calls < CallsOf(command)
    /\ \E rt \in RespTypes, h \in CallerHeaders :
         /\ resp_type' = rt
         /\ headers' = h
    /\ calls' = calls + 1
    /\ sessionAtStart' = session
    /\ res' = <<>> /\ sent' = <<>> /\ log' = <<>>
    /\ refreshes' = 0
    /\ outcome' = "none" /\ result' = "none"
    /\ message' = <<>> /\ disposition' = "n/a"
    /\ logins' = <<>>
    /\ pc' = "ensure"
    /\ UNCHANGED <<clientVars, session, loginTotal, netTotal, seen403>>

\* `if not self.session` (line 57); first the variants with the test
\* inverted and with the test dropped.
NeedsSessionInverted(s) == s # ""
NeedsSessionAlways(s) == TRUE
NeedsSession(s) == s = ""

\* Lines 57-58: fetch a session when none is cached.
do_request_ensure_session ==
    /\ pc = "ensure"
    /\ UNCHANGED outerVars
    /\ IF NeedsSession(session)
         THEN \E lr \in LoginResponses : update_session(lr, "send")
         ELSE /\ pc' = "send"
              /\ UNCHANGED <<session, outcome, log, logins, netTotal,
                             loginTotal>>
    /\ UNCHANGED <<clientVars, callVars, valueVars>>

\* One dispatch of the caller's request with the headers dict as it is,
\* answered by r.
Dispatch(r) ==
    /\ res' = Append(res, r)
    /\ sent' = Append(sent, headers')
    /\ seen403' = (seen403 \/ r.status = 403)
    /\ Network("request")

\* Variant of lines 59-61 that catches a failure of the transport and
\* treats it like an expired session.
do_request_send_catching ==
    /\ pc = "send"
    /\ UNCHANGED outerVars
    /\ headers' = session
    /\ \E r \in Responses :
         /\ Dispatch(r)
         /\ IF http_request(r, OkCodesFirst, "response") = "raise"
              THEN outcome' = outcome /\ pc' = "refresh"
              ELSE outcome' = outcome /\ pc' = "classify"
    /\ UNCHANGED <<clientVars, session, resp_type, refreshes, result, calls,
                   sessionAtStart, valueVars, logins>>

\* Lines 59-61: put the cached session into the headers dict and dispatch
\* with resp_type='response' and the wide ok_codes.
do_request_send ==
    /\ pc = "send"
    /\ UNCHANGED outerVars
    /\ headers' = session
    /\ \E r \in Responses :
         /\ Dispatch(r)
         /\ IF http_request(r, OkCodesFirst, "response") = "raise"
              THEN outcome' = "transport_error" /\ pc' = "done"
              ELSE outcome' = outcome /\ pc' = "classify"
    /\ UNCHANGED <<clientVars, session, resp_type, refreshes, result, calls,
                   sessionAtStart, valueVars, logins>>

\* The status tests of lines 63, 76 and 82; first the variant of line 63
\* with the wrong status code.
IsUnauthorizedMutant(st) == st = 400
IsUnauthorized(st) == st = 401
IsSessionExpired(st) == st = 403
IsRequestError(st) == st = 404 \/ st = 400

\* Lines 89-99: the value returned for a response that is no error.
Unwrap(r, rt) ==
    IF rt = "json" THEN (IF r.json THEN "json" ELSE "bytes")
    ELSE IF rt = "text" THEN "text_pair"
    ELSE IF rt = "content" THEN "content_pair"
    ELSE "response"

\* The second element of the pair returned at lines 95 and 97:
\* res.headers.get('Content-Disposition').
PairDisposition(r, rt) ==
    IF rt \in {"text", "content"} THEN r.disposition ELSE "n/a"

\* str(res.content) of line 84: the text of a bytes object is its literal,
\* b'...', not the bytes' text.  str(res.reason) of line 86 is the reason.
StrOfBytes(b) == <<"b'", b, "'">>
StrOfStr(t) == <<t>>

\* The `text` field of a JSON body, as line 87 would read it.
JsonText == "text_field"

\* Lines 83-87: the exception raised for a 400/404.  With an empty body and
\* an empty reason res.json() is evaluated, which raises a decode error on a
\* body that is not JSON before any HTTPError is made.
RequestErrorOutcome(r) ==
    IF r.content # "" THEN "request_error"
    ELSE IF r.reason # "" THEN "request_error"
    ELSE IF r.json THEN "request_error"
    ELSE "decode_error"

RequestErrorMessage(r) ==
    IF r.content # "" THEN StrOfBytes(r.content)
    ELSE IF r.reason # "" THEN StrOfStr(r.reason)
    ELSE IF r.json THEN StrOfStr(JsonText)
    ELSE <<>>

\* Lines 63-99 on the first response, up to the refresh of line 77.
do_request_classify ==
    /\ pc = "classify"
    /\ UNCHANGED outerVars
    /\ LET r == res[Len(res)] IN
         IF IsUnauthorized(r.status)
           THEN /\ outcome' = "auth_error" /\ result' = result
                /\ pc' = "exited"
                /\ UNCHANGED valueVars
         ELSE IF IsSessionExpired(r.status)
           THEN /\ outcome' = outcome /\ result' = result
                /\ pc' = "refresh"
                /\ UNCHANGED valueVars
         ELSE IF IsRequestError(r.status)
           THEN /\ outcome' = RequestErrorOutcome(r)
                /\ message' = RequestErrorMessage(r)
                /\ result' = result
                /\ pc' = "done"
                /\ UNCHANGED disposition
         ELSE /\ outcome' = "result"
              /\ result' = Unwrap(r, resp_type)
              /\ disposition' = PairDisposition(r, resp_type)
              /\ pc' = "done"
              /\ UNCHANGED message
    /\ UNCHANGED <<clientVars, session, resp_type, headers, res, sent, log,
                   refreshes, calls, sessionAtStart, loginTotal, netTotal,
                   seen403, logins>>

\* Line 77: update_session after a 403.
do_request_refresh ==
    /\ pc = "refresh"
    /\ UNCHANGED outerVars
    /\ refreshes' = refreshes + 1
    /\ \E lr \in LoginResponses : update_session(lr, "retry")
    /\ UNCHANGED <<clientVars, resp_type, headers, res, sent, result, calls,
                   sessionAtStart, seen403, valueVars>>

\* Variant of lines 78-80 that re-enters do_request (fresh header, wide
\* ok_codes, classification of the answer) instead of returning.
do_request_retry_recursive ==
    /\ pc = "retry"
    /\ UNCHANGED outerVars
    /\ headers' = session
    /\ \E r \in Responses :
         /\ Dispatch(r)
         /\ IF http_request(r, OkCodesFirst, "response") = "raise"
              THEN outcome' = "transport_error" /\ pc' = "done"
              ELSE outcome' = outcome /\ pc' = "classify"
    /\ UNCHANGED <<clientVars, session, resp_type, refreshes, result, calls,
                   sessionAtStart, valueVars, logins>>

\* Lines 78-80: re-issue the request with the same headers dict, the narrow
\* ok_codes and the default resp_type, and return what _http_request
\* returns.
do_request_retry ==
    /\ pc = "retry"
    /\ UNCHANGED outerVars
    /\ UNCHANGED headers
    /\ \E r \in Responses :
         /\ Dispatch(r)
         /\ LET v == http_request(r, OkCodesRetry, "json") IN
              IF v = "raise"
                THEN outcome' = "transport_error" /\ result' = result
                ELSE outcome' = "result" /\ result' = v
    /\ pc' = "done"
    /\ UNCHANGED <<clientVars, session, resp_type, refreshes, calls,
                   sessionAtStart, valueVars, logins>>

\* ---------------------------------------------------- command functions, main

\* The outcomes of do_request that are exceptions: requests.HTTPError
\* (lines 84-87), DemistoException of _http_request, the decode error of
\* res.json() (line 87).
ExceptionOutcomes == {"request_error", "transport_error", "decode_error"}

\* The except clauses around do_request in get_intel_doc (line 512) and in
\* add_intel_docs_label (lines 620, 625): which outcome they catch.
Catches(c, o) ==
    \/ c = "tanium-tr-get-intel-doc-by-id" /\ o = "request_error"
    \/ c = "tanium-tr-intel-docs-add-label"
         /\ o \in {"request_error", "transport_error"}

\* The except clauses of get_intel_doc (lines 512-514) and
\* add_intel_docs_label (lines 620-627) on an exception of do_request;
\* matched: the exception's text contains the substring the clause looks
\* for.  With the substring a DemistoException is raised; without it the
\* clause ends and the function goes on: get_intel_doc reads raw_response,
\* which was never bound (line 515), add_intel_docs_label goes on with
\* raw_response = [] (line 614) and builds its result.
command_except ==
    /\ hostOutcome = "running" /\ raised = "none" /\ ~swallowed
    /\ pc = "done" /\ Catches(command, outcome)
    /\ \E matched \in BOOLEAN :
         IF matched
           THEN raised' = "clarified" /\ UNCHANGED swallowed
         ELSE IF command = "tanium-tr-get-intel-doc-by-id"
           THEN raised' = "unbound" /\ UNCHANGED swallowed
         ELSE swallowed' = TRUE /\ UNCHANGED raised
    /\ UNCHANGED <<requestVars, command, hostOutcome, logged, error_msg,
                   fetchVars, concVars>>

\* An exception of the command function's own code, before its first
\* do_request or after one that returned (lines 420, 470, 1751).
command_raises ==
    /\ hostOutcome = "running" /\ raised = "none" /\ ~swallowed
    /\ \/ pc = "idle"
       \/ pc = "done" /\ outcome = "result"
    /\ raised' = "handler"
    /\ UNCHANGED <<requestVars, command, swallowed, hostOutcome, logged,
                   error_msg, fetchVars, concVars>>

\* An exception is on its way out of the command function into main's try:
\* one the function raised, one of do_request that no except clause of the
\* function catches, or the one return_error raises when the command is
\* the fetch (for the other commands return_error ends the process).
Propagating ==
    \/ raised # "none"
    \/ /\ pc = "done" /\ outcome \in ExceptionOutcomes
       /\ ~Catches(command, outcome)
    \/ /\ pc = "exited" /\ calls >= 1
       /\ command = "fetch-incidents"

\* Variant of main's except block without the fetch branch.
main_except_uniform ==
    /\ hostOutcome = "running"
    /\ Propagating
    /\ hostOutcome' = "return_error"
    /\ error_msg' = IF command \in COMMANDS_DEPEND_ON_CONNECTIVITY
                      THEN "with_hint" ELSE "plain"
    /\ UNCHANGED <<requestVars, command, raised, swallowed, logged,
                   fetchVars, concVars>>

\* main's except block (lines 1884-1895): the fetch logs the traceback and
\* re-raises; the other commands hand the text to return_error, with the
\* connectivity hint for the commands that depend on a connection.
main_except ==
    /\ hostOutcome = "running"
    /\ Propagating
    /\ IF command = "fetch-incidents"
         THEN /\ logged' = TRUE
              /\ hostOutcome' = "reraised"
              /\ UNCHANGED error_msg
         ELSE /\ hostOutcome' = "return_error"
              /\ error_msg' = IF command \in COMMANDS_DEPEND_ON_CONNECTIVITY
                                THEN "with_hint" ELSE "plain"
              /\ UNCHANGED logged
    /\ UNCHANGED <<requestVars, command, raised, swallowed, fetchVars,
                   concVars>>

\* The command function returned (lines 1874-1882): its last do_request
\* returned and it has no further one to make, or an except clause ended
\* without raising.  main returns the incidents or the outputs.
main_return ==
    /\ hostOutcome = "running" /\ raised = "none"
    /\ pc = "done"
    /\ \/ outcome = "result"
          /\ (command = "tanium-tr-create-evidence" => calls = 2)
       \/ swallowed
    /\ hostOutcome' = "returned"
    /\ UNCHANGED <<requestVars, command, raised, swallowed, logged,
                   error_msg, fetchVars, concVars>>

Next ==
    \/ Client_init
    \/ do_request_begin
    \/ do_request_ensure_session
    \/ do_request_send
    \/ do_request_classify
    \/ do_request_refresh
    \/ do_request_retry
    \/ command_except
    \/ command_raises
    \/ main_except
    \/ main_return

Spec == Init /\ [][Next]_vars

\* ------------------------------------------------------------ fetch_incidents

\* The alerts the service may return: an id and a createdAt time.  Times
\* are UTC instants counted in microseconds, the precision DATE_FORMAT
\* keeps.
AlertIds == {1, 2}
AlertTimes == {1, 2}
Alerts == [id : AlertIds, createdAt : AlertTimes]

\* The responses of the alerts endpoint: any alerts in any order, repeated
\* or not.
RECURSIVE SeqsUpTo(_, _)
SeqsUpTo(S, n) ==
    IF n = 0 THEN {<<>>}
    ELSE LET shorter == SeqsUpTo(S, n - 1) IN
           shorter \cup { Append(q, x) : q \in shorter, x \in S }

AlertResponses == SeqsUpTo(Alerts, MaxAlerts)

\* The max_fetch parameter (line 451).
MaxFetchValues == {0, 1, 2}

\* The time parse_date_range makes of first_fetch (line 455): before every
\* alert of the model.
FirstFetch == 0

\* datetime.strftime(t, DATE_FORMAT) and str(n) (line 484) write the value
\* into a text; parse (line 459) and int (line 449) read it back.
strftime(t) == <<"time", t>>
parse(text) == text[2]
str(n) == <<"id", n>>
int(text) == text[2]

\* Lines 448-460: the cursor a run starts from.
StoredTime == IF lastRunTime = <<>> THEN FirstFetch ELSE parse(lastRunTime)
StoredId == IF lastRunId = <<>> THEN 0 ELSE int(lastRunId)

\* The test of line 477; first the variant without the id test.
IsNewByTime(alarm, acc, cf) == alarm.createdAt > cf
IsNew(alarm, acc, cf) == alarm.createdAt > cf /\ alarm.id > acc.last_id

\* One pass of the loop body up to line 479 on alarm, with acc the loop's
\* last_fetch, last_id and incidents and cf the current_fetch.
LoopBody(acc, alarm, cf) ==
    [last_fetch |-> IF alarm.createdAt > acc.last_fetch
                      THEN alarm.createdAt ELSE acc.last_fetch,
     last_id    |-> IF IsNew(alarm, acc, cf) THEN alarm.id ELSE acc.last_id,
     incidents  |-> IF IsNew(alarm, acc, cf)
                      THEN Append(acc.incidents, alarm) ELSE acc.incidents]

\* The exit test of line 481.
ReachedMax(n, mf) == n >= mf

\* Lines 468-482: the loop over the response, left at the break.
RECURSIVE Loop(_, _, _, _)
Loop(resp, acc, cf, mf) ==
    IF resp = <<>> THEN acc
    ELSE LET after == LoopBody(acc, Head(resp), cf) IN
           IF ReachedMax(Len(after.incidents), mf) THEN after
           ELSE Loop(Tail(resp), after, cf, mf)

\* The ids of a sequence of alerts.
IdsOf(q) == { q[i].id : i \in 1..Len(q) }

\* What every run records of its start.
RunStarts(mf) ==
    /\ runs' = runs + 1
    /\ emitted' = emitted \cup IdsOf(incidents)
    /\ current_fetch' = StoredTime
    /\ start_id' = StoredId
    /\ max_fetch' = mf

\* fetch_incidents (lines 438-489) on the response resp with max_fetch mf:
\* read the stored cursor, run the loop, store the new cursor, hand the
\* incidents over.
fetch_incidents ==
    /\ runs < MaxRuns
    /\ \E mf \in MaxFetchValues, resp \in AlertResponses :
         LET acc == Loop(resp, [last_fetch |-> StoredTime,
                                last_id |-> StoredId,
                                incidents |-> <<>>], StoredTime, mf) IN
           /\ RunStarts(mf)
           /\ lastRunTime' = strftime(acc.last_fetch)
           /\ lastRunId' = str(acc.last_id)
           /\ incidents' = acc.incidents
           /\ raw_response' = resp
    /\ UNCHANGED <<requestVars, hostVars, concVars>>

\* A run in which do_request (lines 464, 406) or a parse raises: neither
\* setLastRun nor demisto.incidents is reached.
fetch_incidents_raises ==
    /\ runs < MaxRuns
    /\ \E mf \in MaxFetchValues : RunStarts(mf)
    /\ incidents' = <<>>
    /\ raw_response' = <<>>
    /\ UNCHANGED <<lastRunTime, lastRunId>>
    /\ UNCHANGED <<requestVars, hostVars, concVars>>

FetchInit ==
    /\ NoClient
    /\ MainRunning("fetch-incidents")
    /\ NoLastRun
    /\ NoThreads

FetchNext ==
    \/ fetch_incidents
    \/ fetch_incidents_raises

FetchSpec == FetchInit /\ [][FetchNext]_vars

\* ------------------------------------------- two do_request calls interleaved

\* Two callers use one Client at the same time.  Each runs the head of
\* do_request, from the test of line 57 to the dispatch of line 60, and the
\* steps of the two interleave at every read and write of self.session:
\* nothing in Client serializes them.
Threads == {1, 2}

\* self.session not yet read by a call; no login answer received.
Unread == "unread"
NoAnswer == [status |-> NoResponse, data |-> ""]

\* The credential settings that pass check_authentication and line 116.
ValidCredentials ==
    { c \in [u : Usernames, p : Passwords, t : ApiTokens] :
        /\ ~BothCredentials(c.u, c.p, c.t)
        /\ c.t # "" \/ HasBasicCredentials(c.u, c.p) }

ConcInit ==
    /\ pc = "idle"
    /\ \E c \in ValidCredentials :
         username = c.u /\ password = c.p /\ api_token = c.t
    /\ session = ""
    /\ resp_type = "json"
    /\ headers = "absent"
    /\ res = <<>> /\ sent = <<>> /\ log = <<>>
    /\ refreshes = 0
    /\ outcome = "none" /\ result = "none"
    /\ message = <<>> /\ disposition = "n/a"
    /\ logins = <<>>
    /\ calls = 0
    /\ sessionAtStart = ""
    /\ loginTotal = 0 /\ netTotal = 0
    /\ seen403 = FALSE
    /\ MainRunning("tanium-tr-create-evidence")
    /\ NoLastRun
    /\ tpc = [t \in Threads |-> "start"]
    /\ tanswer = [t \in Threads |-> NoAnswer]
    /\ observed = [t \in Threads |-> Unread]

\* What the steps of the interleaved calls leave alone.
concFrame ==
    <<pc, username, password, api_token, resp_type, headers, res, refreshes,
      outcome, result, message, disposition, calls, sessionAtStart, seen403,
      hostVars, fetchVars>>

\* Line 57 in call t: read self.session and test it.
conc_check(t) ==
    /\ tpc[t] = "start"
    /\ observed' = [observed EXCEPT ![t] = session]
    /\ tpc' = [tpc EXCEPT ![t] = IF NeedsSession(session) THEN "login"
                                 ELSE "send"]
    /\ UNCHANGED <<session, sent, log, logins, loginTotal, netTotal, tanswer,
                   concFrame>>

\* Lines 102-104 and 108-113 in call t: the call to the session endpoint,
\* answered by lr; an exception of _http_request ends call t.
conc_login(t) ==
    /\ tpc[t] = "login"
    /\ \E lr \in LoginResponses :
         /\ Network("login")
         /\ logins' = Append(logins, lr)
         /\ IF http_request(LoginAnswer(lr), OkCodesLogin, "json") = "raise"
              THEN /\ tpc' = [tpc EXCEPT ![t] = "raised"]
                   /\ UNCHANGED tanswer
              ELSE /\ tpc' = [tpc EXCEPT ![t] = "adopt"]
                   /\ tanswer' = [tanswer EXCEPT ![t] = lr]
    /\ UNCHANGED <<session, sent, observed, concFrame>>

\* Lines 105-106 and 114 in call t: the assignment to self.session.
conc_adopt(t) ==
    /\ tpc[t] = "adopt"
    /\ session' = IF api_token # "" THEN ValidatedSession(tanswer[t])
                   ELSE tanswer[t].data
    /\ tpc' = [tpc EXCEPT ![t] = "send"]
    /\ UNCHANGED <<sent, log, logins, loginTotal, netTotal, tanswer,
                   observed, concFrame>>

\* Lines 59-60 in call t: read self.session into the header and dispatch
\* the caller's request.
conc_send(t) ==
    /\ tpc[t] = "send"
    /\ sent' = Append(sent, session)
    /\ Network("request")
    /\ tpc' = [tpc EXCEPT ![t] = "sent"]
    /\ UNCHANGED <<session, logins, tanswer, observed, concFrame>>

ConcNext ==
    \/ \E t \in Threads : conc_check(t)
    \/ \E t \in Threads : conc_login(t)
    \/ \E t \in Threads : conc_adopt(t)
    \/ \E t \in Threads : conc_send(t)

ConcSpec == ConcInit /\ [][ConcNext]_vars

\* ------------------------------------------------------------------ claims

\* Number of entries k in the network log l.
RECURSIVE Count(_, _)
Count(l, k) ==
    IF l = <<>> THEN 0
    ELSE (IF Head(l) = k THEN 1 ELSE 0) + Count(Tail(l), k)

\* No response of the running call was a 403.
No403InCall == \A i \in 1..Len(res) : res[i].status # 403

\* The running call is over (returned, raised or ended the process).
CallOver == pc \in {"done", "exited"} /\ calls >= 1

\* C1: single retry on expiry.  When the first dispatch of a call got 403 and
\* the re-issued request got 200, the call dispatched the caller's request
\* exactly twice, refreshed the session exactly once and returned a result
\* with no error.
C1_SingleRetryOnExpiry ==
    (CallOver /\ Len(res) = 2 /\ res[1].status = 403 /\ res[2].status = 200)
        => /\ Count(log, "request") = 2
           /\ refreshes = 1
           /\ outcome = "result"

\* C2: no double retry.  Whatever the statuses, one call dispatches the
\* caller's request at most twice and refreshes at most once because of a
\* 403, and it is over as soon as the second dispatch has been answered.
C2_NoDoubleRetry ==
    /\ Len(sent) <= 2
    /\ Count(log, "request") <= 2
    /\ refreshes <= 1
    /\ Len(sent) = 2 => pc = "done"

C2_Witness ==
    /\ pc = "done"
    /\ Len(res) = 2 /\ res[1].status = 403 /\ res[2].status = 403
    /\ Count(log, "request") = 2
    /\ refreshes = 1

\* C3: 401 is terminal.  When the first dispatch got 401 there is exactly one
\* dispatch, no update_session after it, no retry, the session is the one
\* the dispatch was sent with, and the call ends in an authentication error,
\* never in a returned result.
C3_401Terminal ==
    (Len(res) >= 1 /\ res[1].status = 401)
        => /\ Len(sent) = 1
           /\ Count(log, "request") = 1
           /\ log[Len(log)] = "request"
           /\ refreshes = 0
           /\ session = sent[1]
           /\ result = "none"
           /\ \/ pc = "classify" /\ outcome = "none"
              \/ pc = "exited" /\ outcome = "auth_error"

C3_Witness ==
    /\ pc = "exited" /\ outcome = "auth_error"
    /\ Len(res) = 1 /\ res[1].status = 401
    /\ session # ""

\* C4: after a 403 the re-issued request carries the new session.  Whenever
\* the refresh changed the cached session, the session header sent on the
\* retry equals the new cached session, not the one of the first attempt.
C4_RetryCarriesNewSession ==
    (Len(sent) = 2 /\ session # sent[1]) => sent[2] = session

\* C5: the retry's outcome is returned as is.  When both the first attempt
\* and the retry got 403, the call hands the second 403 back to the caller as
\* its result and raises no transport-level error for it.
C5_Second403Returned ==
    (CallOver /\ Len(res) = 2 /\ res[1].status = 403 /\ res[2].status = 403)
        => outcome = "result"

\* C6: lazy session.  Constructing the client makes no network call, and in
\* the first call of a fresh client exactly one login/validation call is made
\* before the first dispatch of the caller's request.
C6_LazySession ==
    /\ calls = 0 => netTotal = 0 /\ loginTotal = 0
    /\ (calls = 1 /\ Len(sent) >= 1)
         => Len(log) >= 2 /\ log[1] = "login" /\ log[2] = "request"

C6_Witness ==
    /\ calls = 1 /\ pc = "classify"
    /\ log = <<"login", "request">>
    /\ loginTotal = 1 /\ netTotal = 2

C8_BothCredentialsRejected ==
    (pc # "new" /\ username # "" /\ password # "" /\ api_token # "")
        => /\ pc = "exited" /\ outcome = "config_error"
           /\ calls = 0
           /\ netTotal = 0

C8_Witness ==
    /\ pc = "exited" /\ outcome = "config_error"
    /\ username # "" /\ password # "" /\ api_token # ""

\* C9: constructing a client with neither credential variant set raises a
\* configuration error at construction time, not later at call time.
C9_NoCredentialsRejectedAtConstruction ==
    (pc # "new" /\ username = "" /\ password = "" /\ api_token = "")
        => pc = "exited" /\ outcome = "config_error" /\ calls = 0

\* C10: with no API token and not both username and password, the first
\* do_request fails in update_session with the configuration error before any
\* network call; the caller's request is never dispatched and the session
\* stays empty.
C10_NoCredentialsAtCallTime ==
    (pc # "new" /\ api_token = "" /\ ~(username # "" /\ password # ""))
        => /\ netTotal = 0 /\ log = <<>>
           /\ sent = <<>>
           /\ session = ""
           /\ pc \in {"idle", "ensure", "exited"}
           /\ pc = "exited" => outcome = "config_error" /\ calls = 1

C10_Witness ==
    /\ pc = "exited" /\ outcome = "config_error"
    /\ calls = 1
    /\ api_token = "" /\ username # "" /\ password = ""
    /\ netTotal = 0 /\ session = ""

\* The last response of the running call to the caller's request.
LastRes == res[Len(res)]

\* The last answer of a session endpoint in the running call.
LastLogin == logins[Len(logins)]

\* update_session has just returned without error.
SessionJustUpdated ==
    /\ pc \in {"send", "retry"}
    /\ Len(log) >= 1 /\ log[Len(log)] = "login"

\* The answer to the i-th network call of the running call.
AnswerAt(i) ==
    IF log[i] = "login"
      THEN LoginAnswer(logins[Count(SubSeq(log, 1, i), "login")])
      ELSE LET r == res[Count(SubSeq(log, 1, i), "request")] IN
             [status |-> r.status, json |-> r.json]

\* C11: a first response with status 400 or 404 always makes the call fail
\* with a request error; it is never returned as a result, never unwrapped,
\* and triggers no refresh and no retry.
C11_RequestErrorOn400404 ==
    (Len(res) >= 1 /\ res[1].status \in RequestErrorStatuses
       /\ pc # "classify")
        => /\ pc = "done"
           /\ outcome = "request_error"
           /\ result = "none" /\ disposition = "n/a"
           /\ refreshes = 0
           /\ Len(sent) = 1

\* C12: error message priority for a 400/404 response.  With a non-empty body
\* the message is the body text, whatever the reason phrase; with an empty
\* body and a non-empty reason phrase it is the reason phrase; with both
\* empty it is the `text` field of the JSON body.
C12_MessagePriority ==
    (pc = "done" /\ Len(res) = 1 /\ res[1].status \in RequestErrorStatuses)
        => /\ res[1].content # "" => message = <<res[1].content>>
           /\ (res[1].content = "" /\ res[1].reason # "")
                => message = <<res[1].reason>>
           /\ (res[1].content = "" /\ res[1].reason = "")
                => message = <<JsonText>>

\* C13: the retried response is classified like a first response.  When the
\* first attempt got 403 and the retry got 400 or 404, the call fails with
\* the request error and does not return the retry's body as a result.
C13_RetryClassified ==
    (CallOver /\ Len(res) = 2 /\ res[1].status = 403
       /\ res[2].status \in RequestErrorStatuses)
        => outcome = "request_error" /\ result = "none"

\* C14: shape fidelity.  Every call that completes successfully with
\* resp_type 'text' or 'content' returns the pair (payload,
\* Content-Disposition value or absent), also when the header is missing
\* and also when the success came from the retry after a 403.
C14_ShapeFidelity ==
    (CallOver /\ outcome = "result" /\ resp_type \in {"text", "content"})
        => /\ result = (IF resp_type = "text" THEN "text_pair"
                        ELSE "content_pair")
           /\ disposition = LastRes.disposition

\* C15: both attempts use the same non-exceptional status set.  For every
\* status of the first dispatch's ok_codes the transport raises neither on
\* the first dispatch nor on the retry after a 403 (the body being
\* decodable), so a retry answered 201, 202 or 204 is no transport error.
C15_SameOkCodesOnRetry ==
    (CallOver /\ Len(res) >= 1 /\ log[Len(log)] = "request"
       /\ LastRes.status \in OkCodesFirst /\ LastRes.json)
        => outcome # "transport_error"

\* C16: lenient structured decode.  When resp_type is 'json' and the
\* response is no error, the call returns the raw body bytes when the body
\* is not decodable as JSON, and the decoded data when it is; it does not
\* raise.
C16_LenientDecode ==
    (CallOver /\ resp_type = "json" /\ Len(res) >= 1
       /\ LastRes.status \in SuccessStatuses)
        => /\ outcome = "result"
           /\ result = (IF LastRes.json THEN "json" ELSE "bytes")

\* C17: session adoption.  After update_session returns without error the
\* cached session is the API token itself when token credentials are
\* configured and the validation answer carried a truthy data, and the
\* data.session field of the login answer when username/password
\* credentials are configured.
C17_SessionAdoption ==
    SessionJustUpdated
        => /\ (api_token # "" /\ LastLogin.data # "") => session = api_token
           /\ api_token = "" => session = LastLogin.data

C17_Witness ==
    /\ pc = "send"
    /\ api_token = "tok"
    /\ logins = <<[status |-> 200, data |-> "s1"]>>
    /\ sessionAtStart = "" /\ session = "tok"

\* C18: refresh overwrites unconditionally.  Whenever update_session, called
\* as a refresh, returns without error, the cached session is the value
\* obtained in that call; a session cached before is not left in place
\* because of what the service answered.
C18_RefreshOverwrites ==
    (pc = "retry" /\ sent[1] # "")
        => IF api_token # ""
             THEN LastLogin.data # "" /\ session = api_token
             ELSE session = LastLogin.data

\* C19: every dispatch of the caller's request carries the client's cached
\* session in the `session` header, whatever the caller supplied for that
\* key.
C19_DispatchCarriesCachedSession ==
    /\ (pc = "classify" /\ Len(sent) = 1) => sent[1] = session
    /\ Len(sent) = 2 => sent[2] = session
    /\ \A i \in 1..Len(sent) : sent[i] \notin CallerHeaders

\* C20: transport failures are terminal and not retried.  When a transport
\* call of the running call (login/validation, first dispatch or retry) got
\* no response, the error has propagated to the caller and that call was
\* the last transport call of the do_request call.
C20_TransportFailureTerminal ==
    \A i \in 1..Len(log) :
        AnswerAt(i).status = NoResponse
            => /\ i = Len(log)
               /\ pc = "done"
               /\ outcome = "transport_error"

C20_Witness ==
    /\ pc = "done" /\ outcome = "transport_error"
    /\ log = <<"login", "request", "login">>
    /\ logins[2].status = NoResponse
    /\ res[1].status = 403

\* C21 as stated: one do_request call makes at most two network calls in
\* total, the login/validation calls counted.
C21_AtMostTwoRoundTrips == Len(log) <= 2

\* C21 as amended: one do_request call dispatches the caller's request at
\* most twice and calls the session endpoint at most twice, once because no
\* session was cached when it started and once because of a 403; that is at
\* most four network calls in total.
C21_AtMostFourRoundTrips ==
    /\ Count(log, "request") <= 2
    /\ refreshes <= 1
    /\ Count(log, "login")
         <= (IF sessionAtStart = "" THEN 1 ELSE 0) + refreshes
    /\ Len(log) <= 4

C21_Witness ==
    /\ calls = 1 /\ pc = "done" /\ outcome = "result"
    /\ log = <<"login", "request", "login", "request">>
    /\ res[1].status = 403 /\ res[2].status = 200

\* A command run under main met an error: its function raised, or its last
\* do_request ended in an exception or in return_error.
ErrorInCommand ==
    \/ raised # "none"
    \/ /\ calls >= 1 /\ pc \in {"done", "exited"}
       /\ outcome \notin {"none", "result"}

\* C22: in main, an error met while running fetch-incidents is logged and
\* re-raised, never turned into a normal return; an error of another command
\* that reaches main is reported through return_error, and the log-and-raise
\* path is taken by the fetch only.
C22_FetchErrorsReraised ==
    /\ (command = "fetch-incidents" /\ ErrorInCommand
          /\ hostOutcome # "running")
         => hostOutcome = "reraised" /\ logged
    /\ (command = "fetch-incidents" /\ hostOutcome = "returned")
         => ~ErrorInCommand /\ outcome = "result"
    /\ (command # "fetch-incidents" /\ Propagating
          /\ hostOutcome # "running")
         => hostOutcome = "return_error" /\ error_msg # "none"
    /\ (logged \/ hostOutcome = "reraised") => command = "fetch-incidents"

C22_Witness ==
    /\ command = "fetch-incidents"
    /\ calls = 2 /\ pc = "done" /\ outcome = "request_error"
    /\ hostOutcome = "reraised" /\ logged

\* C24: session invariant.  The cached session changes only in a step that
\* is an update_session call whose session endpoint answered 200, and the
\* new value is the API token (token credentials) or the data.session of
\* that answer (username/password); no step that dispatches the caller's
\* request or classifies its response changes it.
C24_SessionInvariant ==
    [][ session' # session
          => /\ pc \in {"ensure", "refresh"}
             /\ loginTotal' = loginTotal + 1
             /\ Len(res') = Len(res)
             /\ logins'[Len(logins')].status = 200
             /\ session' = IF api_token # "" THEN api_token
                            ELSE logins'[Len(logins')].data ]_vars

C24_Witness ==
    /\ pc = "retry"
    /\ res[1].status = 403
    /\ sent[1] = "s1" /\ session = "s2"
    /\ api_token = ""

\* C25: do_request never dispatches the caller's request with an empty
\* session header: every dispatch carries a non-empty session, also after a
\* session step that returned without error on a falsy data.
C25_NoEmptySessionHeader ==
    \A i \in 1..Len(sent) : sent[i] # ""

\* C26: failed login changes nothing.  When a login/validation call of the
\* running do_request call failed (no response, or a status other than 200),
\* the call has ended with the error, the cached session is the one held
\* before that login call, the failed login is the last network call of the
\* do_request call (no second login, no dispatch after it).
C26_FailedLoginChangesNothing ==
    \A i \in 1..Len(logins) :
        logins[i].status # 200
            => /\ i = Len(logins)
               /\ log[Len(log)] = "login"
               /\ pc = "done" /\ outcome = "transport_error"
               /\ result = "none"
               /\ session = (IF res = <<>> THEN sessionAtStart ELSE sent[1])

C26_Witness ==
    /\ pc = "done" /\ outcome = "transport_error"
    /\ log = <<"request", "login">>
    /\ res[1].status = 403
    /\ logins[1].status = 500
    /\ session = "s1" /\ sent[1] = "s1"

\* C27: command wrappers do not suppress request errors.  When the
\* do_request call of a command function ended in an exception, no except
\* clause of the function ends without raising, the exception leaving the
\* function is the original one or its clarified form, and main does not
\* return a success result.
C27_WrappersDoNotSuppress ==
    (pc = "done" /\ outcome \in ExceptionOutcomes)
        => /\ ~swallowed
           /\ raised \in {"none", "clarified"}
           /\ hostOutcome # "returned"

\* C23: fetch deduplication.  Over the runs of fetch_incidents, each started
\* from the cursor the run before stored, no alert id is handed over twice:
\* the incidents of a run have distinct ids, and none of them was handed
\* over by an earlier run, whatever the order and repetition of the alerts
\* in the responses.
C23_FetchDeduplication ==
    /\ \A i, j \in 1..Len(incidents) :
          i # j => incidents[i].id # incidents[j].id
    /\ \A i \in 1..Len(incidents) : incidents[i].id \notin emitted

C23_Witness ==
    /\ runs = 2
    /\ emitted = {1}
    /\ Len(raw_response) = 2
    /\ raw_response[1].id = 1 /\ raw_response[2].id = 2
    /\ raw_response[1].createdAt = 2
    /\ IdsOf(incidents) = {2}

\* The alerts returned to the last run that were past the cursor the run
\* started from.
PastStartCursor ==
    { raw_response[i] : i \in { j \in 1..Len(raw_response) :
          /\ raw_response[j].id > start_id
          /\ raw_response[j].createdAt > current_fetch } }

\* C28: no incident loss in fetch.  After a run with max_fetch >= 1, every
\* alert the service returned to it that was past the run's start cursor
\* (id and createdAt) has been handed over or is still past the stored
\* cursor, so that a later run can hand it over: advancing the cursor never
\* skips an alert that was not handed over.
C28_NoIncidentLoss ==
    (runs >= 1 /\ max_fetch >= 1)
        => \A a \in PastStartCursor :
              \/ a.id \in IdsOf(incidents)
              \/ a.id > StoredId /\ a.createdAt > StoredTime

\* C29: one run hands over at most max_fetch incidents, for every
\* max_fetch >= 0 and every response, and every incident it hands over has an
\* id greater than and a createdAt later than the cursor the run started
\* from.
C29_AtMostMaxFetch ==
    /\ Len(incidents) <= max_fetch
    /\ \A i \in 1..Len(incidents) :
          /\ incidents[i].id > start_id
          /\ incidents[i].createdAt > current_fetch

\* The calls that read an empty session at line 57 and have made their
\* call to the session endpoint.
LoggedInAfterEmpty ==
    { t \in DOMAIN tpc :
        observed[t] = "" /\ tpc[t] \in {"adopt", "send", "sent", "raised"} }

\* The session calls made before the first dispatch of a caller's request.
RECURSIVE LoginsBeforeRequest(_)
LoginsBeforeRequest(l) ==
    IF l = <<>> \/ Head(l) = "request" THEN 0
    ELSE 1 + LoginsBeforeRequest(Tail(l))

\* C30: unsynchronized concurrent use.  With two do_request calls
\* interleaved on one Client, every call that read the empty session at line
\* 57 issues its own login/validation call, whatever the other call has done
\* in between: the session calls made are exactly one per such call, so two
\* of them can precede the first business request.
C30_EachEmptyReaderLogsIn ==
    /\ Count(log, "login") = Cardinality(LoggedInAfterEmpty)
    /\ \A t \in DOMAIN tpc :
          (tpc[t] \in {"send", "sent"} /\ observed[t] # "")
              => LoginsBeforeRequest(log) >= 1

C30_Witness ==
    /\ observed = [t \in Threads |-> ""]
    /\ log = <<"login", "login">>
    /\ LoginsBeforeRequest(log) = 2
    /\ sent = <<>>
    /\ tpc[1] = "send" /\ tpc[2] = "adopt"
====
